---- MODULE Spec2Model ----
(***************************************************************************)
(* A model of cc-switch-usb-rs (src/src/main.rs): the USB bridge that      *)
(* reads length-prefixed commands from a Switch, drives cold_clear engine  *)
(* instances addressed by u32 handles, and writes length-prefixed results. *)
(*                                                                         *)
(* Spec       the dispatcher of main(): the outer connect loop, the        *)
(*            request loop and the eight match arms, one command per step. *)
(* SpecFrame  command() and result() byte by byte: read_all and write_all  *)
(*            over a device whose every bulk transfer moves some bytes,    *)
(*            times out or fails.                                          *)
(*                                                                         *)
(* A u32 is kept at its full width.  TLC's integers stop at 2^31 - 1, so a *)
(* u32 is the pair <<hi, lo>> of its two 16-bit halves and a launch count  *)
(* (which outgrows a u32) is the triple <<carry, hi, lo>>.                 *)
(***************************************************************************)
EXTENDS Integers, Sequences, FiniteSets, TLC

\* ------------------------------------------------------------------ bounds
\* Handles within Window of the wraparound point 0 are followed one Launch
\* at a time; the handles in between are crossed by LaunchDropRun.
Window == 2
\* Longest payload of a frame the peer sends or the bridge writes.
MaxPayload == 2
\* Most endpoint descriptors of an interface descriptor.
MaxEndpoints == 3
\* Most devices enumerated before the first Switch.
MaxOthers == 1

\* ------------------------------------------------------------- u32 values
LimbBase == 2 ^ 16
LimbMax == LimbBase - 1

U32(hi, lo) == <<hi, lo>>
U32Zero == U32(0, 0)
U32One == U32(0, 1)
U32Two == U32(0, 2)

\* u32::saturating_add(1): the last value 0xFFFF_FFFF is followed by itself.
wrapping_add1_Saturating(x) ==
    IF x[2] < LimbMax THEN U32(x[1], x[2] + 1)
    ELSE IF x[1] < LimbMax THEN U32(x[1] + 1, 0)
    ELSE x

\* u32::wrapping_add(1), line 59: the last value 0xFFFF_FFFF is followed by 0.
wrapping_add1(x) ==
    IF x[2] < LimbMax THEN U32(x[1], x[2] + 1)
    ELSE IF x[1] < LimbMax THEN U32(x[1] + 1, 0)
    ELSE U32Zero

U32Less(a, b) == a[1] < b[1] \/ (a[1] = b[1] /\ a[2] < b[2])

\* Counts of commands are naturals of three 16-bit limbs.
Count(carry, hi, lo) == <<carry, hi, lo>>
CountZero == Count(0, 0, 0)
CountAdd(a, b) ==
    LET lo == a[3] + b[3]
        hi == a[2] + b[2] + (lo \div LimbBase)
    IN  Count(a[1] + b[1] + (hi \div LimbBase), hi % LimbBase, lo % LimbBase)
CountSucc(a) == CountAdd(a, Count(0, 0, 1))
CountLess(a, b) ==
    \/ a[1] < b[1]
    \/ a[1] = b[1] /\ a[2] < b[2]
    \/ a[1] = b[1] /\ a[2] = b[2] /\ a[3] < b[3]
CountLeq(a, b) == a = b \/ CountLess(a, b)
\* 2^32, the number of u32 values
TwoPow32 == Count(1, 0, 0)
\* a count reduced modulo 2^32
CountModU32(a) == U32(a[2], a[3])

\* The handles the model follows individually: 0..Window and the Window
\* values below 2^32.
Tracked ==
    {U32(0, k) : k \in 0..Window} \cup {U32(LimbMax, LimbMax - k) : k \in 0..(Window - 1)}
RunStart == U32(0, Window)
RunEnd == U32(LimbMax, LimbMax - Window)
\* the handles strictly between RunStart and the first tracked high handle
InRun(h) == U32Less(RunStart, h) /\ U32Less(h, wrapping_add1(RunEnd))
\* number of Launch/Drop pairs of a run: 2^32 - 1 - 2 * Window
RunLength == Count(0, LimbMax, LimbMax - 2 * Window)
\* Launch is followed up to Window launches past the first 2^32.
LaunchCap == Count(1, 0, Window + 1)

\* ------------------------------------------------------------ HashMap<u32, Interface>
EmptyMap == [k \in {} |-> CountZero]

\* HashMap::insert, line 60: an existing key gets the new value
HashMapInsert(m, k, v) ==
    [x \in DOMAIN m \cup {k} |-> IF x = k THEN v ELSE m[x]]

\* a removal that empties the map when it finds the key
HashMapRemove_Clear(m, k) == IF k \in DOMAIN m THEN EmptyMap ELSE m

\* a remove that leaves the table as it was
HashMapRemove_Keep(map, key) == map

\* HashMap::remove, line 64
HashMapRemove(m, k) == [x \in DOMAIN m \ {k} |-> m[x]]

HashMapContains(m, k) == k \in DOMAIN m

\* ------------------------------------------------------------ commands
Cmd(op, h, a) == [op |-> op, handle |-> h, arg |-> a]
NoCmd == Cmd("None", U32Zero, 0)

\* argument values a peer may send
HandleArgs == Tracked
Incomings == {0, 1}
Pieces == {0, 1}

Commands ==
    {Cmd("Launch", U32Zero, 0), Cmd("DefaultOptions", U32Zero, 0),
     Cmd("DefaultEvaluator", U32Zero, 0)}
    \cup {Cmd("Drop", h, 0) : h \in HandleArgs}
    \cup {Cmd("PollNextMove", h, 0) : h \in HandleArgs}
    \cup {Cmd("BlockNextMove", h, 0) : h \in HandleArgs}
    \cup {Cmd("RequestNextMove", h, i) : h \in HandleArgs, i \in Incomings}
    \cup {Cmd("AddNextPiece", h, p) : h \in HandleArgs, p \in Pieces}

\* responses: what result() serializes
\* lines 66-77: the commands that look their handle up; lines 78-83: the two
\* that take none
HandleOps == {"RequestNextMove", "PollNextMove", "BlockNextMove", "AddNextPiece"}
DefaultOps == {"DefaultOptions", "DefaultEvaluator"}

Resp(kind, v) == [kind |-> kind, value |-> v]
NoResp == Resp("None", U32Zero)
\* poll_next_move() is an Option: 0 = not ready, 1 = a move
PollResults == {U32Zero, U32One}

\* engine calls: the instance (named by the ordinal of the Launch that
\* created it) and the entry point
Call(e, f) == [engine |-> e, fn |-> f]
NoCall == Call(CountZero, "none")

ConnErrors ==
    {"SwitchNotFound", "NoInterface", "NoInterfaceDescriptor", "NoInEndpoint",
     "NoOutEndpoint", "RusbError"}

\* ------------------------------------------------------------ state
VARIABLES
    pc,             \* "connect" | "sleep" | "command" | "exec" | "panicked"
    handle_counter, \* line 52
    handles,        \* line 53
    cmd,            \* the Command returned by command(), line 55
    frames,         \* response frames written since the last request was read
    resp,           \* the last response written
    fault,          \* why the process panicked
    conn_err,       \* the last Err of try_connect
    engine_call,    \* the engine call made by the last executed command
    launches,       \* Launch commands executed in this session
    laps,           \* runs taken: times each handle outside Tracked was answered
    answered,       \* per tracked handle, the number of Launch responses carrying it
    live,           \* <<handle, engine>> answered by a Launch and not dropped since
    removed         \* Drop commands of this session whose handle was present

dvars == <<pc, handle_counter, handles, cmd, frames, resp, fault, conn_err,
           engine_call, launches, laps, answered, live, removed>>

\* command() and result() over the transport, lines 35-47 and 172-201
VARIABLES
    f_pc,       \* "idle" | "len" | "buf" | "wlen" | "wbuf" | "done" | "panicked"
    f_fn,       \* "command" | "result" | "none"
    stream,     \* the bytes the peer sends, in order
    taken,      \* how many of them the device has handed to read()
    wire,       \* the bytes the device has accepted from write(), in order
    payload,        \* serde_cbor::to_vec(msg), line 44
    len,        \* line 38
    decoded,    \* the slice given to serde_cbor::from_slice, line 41
    io_fn,      \* "read_all" | "write_all" | "none": the call in progress or returned
    io_n,       \* buf.len()
    io_buf,     \* read_all: the bytes stored into buf, by index (the rest is 0)
    io_src,     \* write_all: buf
    io_count,   \* the local `read` / `written`
    io_moved,   \* bytes the device moved during this call
    io_base,    \* taken (read_all) or Len(wire) (write_all) when the call began
    io_last,    \* outcome of the last underlying transfer of this call
    io_ret      \* the value returned by the call

fvars == <<f_pc, f_fn, stream, taken, wire, payload, len, decoded, io_fn, io_n, io_buf,
           io_src, io_count, io_moved, io_base, io_last, io_ret>>

\* try_connect(), lines 121-171
VARIABLES
    devices,        \* rusb::devices(), in enumeration order
    t_pc,           \* "idle" | "start" | "device" | "open" | "endpoints"
    dev_i,          \* index of the device the for loop of line 122 is at
    ep_i,           \* endpoint descriptors the loop of line 133 has examined
    endpoint_in,    \* line 131: {} is None, {a} is Some(a)
    endpoint_out,   \* line 132
    t_ret,          \* "none" while running, then "Ok" or the error returned
    t_conn,         \* the SwitchConnection returned
    opened,         \* devices opened, line 127
    configured,     \* devices given set_active_configuration(1), line 128
    claimed         \* <<device, interface number>> claimed, line 149

cvars == <<devices, t_pc, dev_i, ep_i, endpoint_in, endpoint_out, t_ret, t_conn,
           opened, configured, claimed>>

vars == <<dvars, fvars, cvars>>

Connected == pc \in {"command", "exec"}
Disconnected == pc \in {"connect", "sleep"}

\* a counter that starts at 1
FreshCounter_Stale == U32One
\* the values of lines 52-53
FreshCounter == U32Zero
FreshHandles == EmptyMap

DispatcherInit ==
    /\ pc = "connect"
    /\ handle_counter = FreshCounter
    /\ handles = FreshHandles
    /\ cmd = NoCmd
    /\ frames = 0
    /\ resp = NoResp
    /\ fault = "none"
    /\ conn_err = "none"
    /\ engine_call = NoCall
    /\ launches = CountZero
    /\ laps = 0
    /\ answered = [h \in Tracked |-> 0]
    /\ live = {}
    /\ removed = CountZero

\* ------------------------------------------------------------ outer loop
\* lines 49-53: try_connect() is Ok, the session state is created
try_connect_Ok ==
    /\ pc = "connect"
    /\ pc' = "command"
    /\ handle_counter' = FreshCounter
    /\ handles' = FreshHandles
    /\ cmd' = NoCmd
    /\ frames' = 0
    /\ resp' = NoResp
    /\ engine_call' = NoCall
    /\ launches' = CountZero
    /\ laps' = 0
    /\ answered' = [h \in Tracked |-> 0]
    /\ live' = {}
    /\ removed' = CountZero
    /\ conn_err' = "none"
    /\ UNCHANGED fault
    /\ UNCHANGED <<fvars, cvars>>

\* lines 87-89: try_connect() is Err
try_connect_Err ==
    /\ pc = "connect"
    /\ \E e \in ConnErrors : conn_err' = e
    /\ pc' = "sleep"
    /\ UNCHANGED <<handle_counter, handles, cmd, frames, resp, fault, engine_call,
                   launches, laps, answered, live, removed>>
    /\ UNCHANGED <<fvars, cvars>>

\* line 90: the 5 second sleep ends and the outer loop iterates
sleep ==
    /\ pc = "sleep"
    /\ pc' = "connect"
    /\ UNCHANGED <<handle_counter, handles, cmd, frames, resp, fault, conn_err,
                   engine_call, launches, laps, answered, live, removed>>
    /\ UNCHANGED <<fvars, cvars>>

\* ------------------------------------------------------------ command()
LaunchAllowed ==
    /\ wrapping_add1(handle_counter) \in Tracked
    /\ CountLess(CountSucc(launches), LaunchCap)

\* lines 35-42, 55: both read_all calls are Ok and the payload decodes
command_Ok ==
    /\ pc = "command"
    /\ \E c \in Commands :
          /\ c.op = "Launch" => LaunchAllowed
          /\ cmd' = c
    /\ pc' = "exec"
    /\ frames' = 0
    /\ engine_call' = NoCall
    /\ UNCHANGED <<handle_counter, handles, resp, fault, conn_err, launches, laps,
                   answered, live, removed>>
    /\ UNCHANGED <<fvars, cvars>>

Panic(why) ==
    /\ pc' = "panicked"
    /\ fault' = why

\* lines 37, 40: read_all is Err((n, err)), unwrap() panics
command_IoError ==
    /\ pc = "command"
    /\ Panic("io_read")
    /\ UNCHANGED <<handle_counter, handles, cmd, frames, resp, conn_err, engine_call,
                   launches, laps, answered, live, removed>>
    /\ UNCHANGED <<fvars, cvars>>

\* line 41: serde_cbor::from_slice is Err, unwrap() panics
command_Malformed ==
    /\ pc = "command"
    /\ Panic("malformed")
    /\ UNCHANGED <<handle_counter, handles, cmd, frames, resp, conn_err, engine_call,
                   launches, laps, answered, live, removed>>
    /\ UNCHANGED <<fvars, cvars>>

\* ------------------------------------------------------------ result()
\* lines 43-47: the frame is written, or a write_all is Err and unwrap() panics
result(msg1) ==
    \/ /\ frames' = frames + 1
       /\ resp' = msg1
       /\ pc' = "command"
       /\ UNCHANGED fault
    \/ /\ Panic("io_write")
       /\ UNCHANGED <<frames, resp>>

\* ------------------------------------------------------------ match arms
\* a Launch arm that reads handle_counter before line 59 assigns it
LaunchKey_BeforeIncrement(before, after) == before

\* lines 60-61: handle_counter is read after the assignment of line 59
LaunchKey(before, after) == after

\* lines 56-62
Launch ==
    /\ pc = "exec" /\ cmd.op = "Launch"
    /\ LET engine == CountSucc(launches)
           new == wrapping_add1(handle_counter)
           key == LaunchKey(handle_counter, new)
       IN  /\ launches' = engine
           /\ engine_call' = Call(engine, "launch")
           /\ handle_counter' = new
           /\ handles' = HashMapInsert(handles, key, engine)
           /\ result(Resp("handle", key))
           /\ IF pc' = "command"
              THEN /\ answered' = [answered EXCEPT ![key] = @ + 1]
                   /\ live' = live \cup {<<key, engine>>}
              ELSE UNCHANGED <<answered, live>>
    /\ UNCHANGED <<cmd, conn_err, laps, removed>>
    /\ UNCHANGED <<fvars, cvars>>

\* lines 63-65
Drop ==
    /\ pc = "exec" /\ cmd.op = "Drop"
    /\ handles' = HashMapRemove(handles, cmd.handle)
    /\ live' = {p \in live : p[1] # cmd.handle}
    /\ removed' = IF HashMapContains(handles, cmd.handle)
                  THEN CountSucc(removed) ELSE removed
    /\ pc' = "command"
    /\ UNCHANGED <<handle_counter, cmd, frames, resp, fault, conn_err, engine_call,
                   launches, laps, answered>>
    /\ UNCHANGED <<fvars, cvars>>

\* a lookup that skips the command when the handle is absent
AbsentHandle_Ignored ==
    /\ pc = "exec"
    /\ cmd.op \in HandleOps
    /\ ~HashMapContains(handles, cmd.handle)
    /\ pc' = "command"
    /\ UNCHANGED <<handle_counter, handles, cmd, frames, resp, fault, conn_err,
                   engine_call, launches, laps, answered, live, removed>>
    /\ UNCHANGED <<fvars, cvars>>

\* handles.get(&handle).unwrap() of lines 67, 70, 73, 76 on an absent handle
AbsentHandle ==
    /\ pc = "exec"
    /\ cmd.op \in HandleOps
    /\ ~HashMapContains(handles, cmd.handle)
    /\ Panic("absent_handle")
    /\ UNCHANGED <<handle_counter, handles, cmd, frames, resp, conn_err, engine_call,
                   launches, laps, answered, live, removed>>
    /\ UNCHANGED <<fvars, cvars>>

\* lines 66-68
RequestNextMove ==
    /\ pc = "exec" /\ cmd.op = "RequestNextMove"
    /\ HashMapContains(handles, cmd.handle)
    /\ engine_call' = Call(handles[cmd.handle], "request_next_move")
    /\ pc' = "command"
    /\ UNCHANGED <<handle_counter, handles, cmd, frames, resp, fault, conn_err,
                   launches, laps, answered, live, removed>>
    /\ UNCHANGED <<fvars, cvars>>

\* a poll that takes the engine out of the table to call it
PollNextMove_Take ==
    /\ pc = "exec" /\ cmd.op = "PollNextMove"
    /\ HashMapContains(handles, cmd.handle)
    /\ engine_call' = Call(handles[cmd.handle], "poll_next_move")
    /\ handles' = HashMapRemove(handles, cmd.handle)
    /\ \E r \in PollResults : result(Resp("poll", r))
    /\ UNCHANGED <<handle_counter, cmd, conn_err, launches, laps, answered, live, removed>>
    /\ UNCHANGED <<fvars, cvars>>

\* lines 69-71
PollNextMove ==
    /\ pc = "exec" /\ cmd.op = "PollNextMove"
    /\ HashMapContains(handles, cmd.handle)
    /\ engine_call' = Call(handles[cmd.handle], "poll_next_move")
    /\ \E r \in PollResults : result(Resp("poll", r))
    /\ UNCHANGED <<handle_counter, handles, cmd, conn_err, launches, laps, answered, live, removed>>
    /\ UNCHANGED <<fvars, cvars>>

\* lines 72-74
BlockNextMove ==
    /\ pc = "exec" /\ cmd.op = "BlockNextMove"
    /\ HashMapContains(handles, cmd.handle)
    /\ engine_call' = Call(handles[cmd.handle], "block_next_move")
    /\ result(Resp("move", U32One))
    /\ UNCHANGED <<handle_counter, handles, cmd, conn_err, launches, laps, answered, live, removed>>
    /\ UNCHANGED <<fvars, cvars>>

\* lines 75-77
AddNextPiece ==
    /\ pc = "exec" /\ cmd.op = "AddNextPiece"
    /\ HashMapContains(handles, cmd.handle)
    /\ engine_call' = Call(handles[cmd.handle], "add_next_piece")
    /\ pc' = "command"
    /\ UNCHANGED <<handle_counter, handles, cmd, frames, resp, fault, conn_err,
                   launches, laps, answered, live, removed>>
    /\ UNCHANGED <<fvars, cvars>>

\* the arm of lines 78-80 without its result() call
DefaultOptions_Silent ==
    /\ pc = "exec" /\ cmd.op = "DefaultOptions"
    /\ pc' = "command"
    /\ UNCHANGED <<handle_counter, handles, cmd, frames, resp, fault, conn_err,
                   engine_call, launches, laps, answered, live, removed>>
    /\ UNCHANGED <<fvars, cvars>>

\* lines 78-80
DefaultOptions ==
    /\ pc = "exec" /\ cmd.op = "DefaultOptions"
    /\ result(Resp("options", U32Zero))
    /\ UNCHANGED <<handle_counter, handles, cmd, conn_err, engine_call, launches, laps,
                   answered, live, removed>>
    /\ UNCHANGED <<fvars, cvars>>

\* lines 81-83
DefaultEvaluator ==
    /\ pc = "exec" /\ cmd.op = "DefaultEvaluator"
    /\ result(Resp("evaluator", U32Zero))
    /\ UNCHANGED <<handle_counter, handles, cmd, conn_err, engine_call, launches, laps,
                   answered, live, removed>>
    /\ UNCHANGED <<fvars, cvars>>

\* lines 54-65, iterated: RunLength times the peer sends Launch and then Drop
\* of the handle just answered, every transfer succeeding.  Each pair adds one
\* to handle_counter, inserts the new key and removes it again, so the run
\* carries handle_counter from RunStart to RunEnd and leaves no key it made.
LaunchDropRun ==
    /\ pc = "command"
    /\ handle_counter = RunStart
    /\ CountLess(CountAdd(launches, RunLength), LaunchCap)
    /\ handle_counter' = RunEnd
    /\ handles' = [k \in {x \in DOMAIN handles : ~InRun(x)} |-> handles[k]]
    /\ live' = {p \in live : ~InRun(p[1])}
    /\ launches' = CountAdd(launches, RunLength)
    /\ removed' = CountAdd(removed, RunLength)
    /\ laps' = laps + 1
    /\ cmd' = Cmd("Drop", RunEnd, 0)
    /\ frames' = 0
    /\ resp' = Resp("handle", RunEnd)
    /\ engine_call' = NoCall
    /\ UNCHANGED <<pc, fault, conn_err, answered>>
    /\ UNCHANGED <<fvars, cvars>>

\* ------------------------------------------------------------ the transport
Min(a, b) == IF a < b THEN a ELSE b

\* rusb::Error values other than Timeout
HardErrors == {"NoDevice", "Pipe"}

\* a retry loop that swallows every error
IsTimeout_Any(err) == TRUE

\* lines 181, 196: the one error the retry loops swallow
IsTimeout(err) == err = "Timeout"

\* a retry that passes the whole buffer again
ResumeAt_Start(count) == 0

\* lines 179, 194: the slice buf[read..] / buf[written..] starts at the count
ResumeAt(count) == count

\* a count that is assigned, not added to
Accumulate_Assign(count, bytes) == bytes

\* lines 180, 195: read += bytes / written += bytes
Accumulate(count, bytes) == count + bytes

\* lines 182, 197: the count reported with an error
ErrCount(count) == count

Outcome(kind, bytes, err) == [kind |-> kind, bytes |-> bytes, err |-> err]
NoOutcome == Outcome("none", 0, "none")
Ret(tag, n, err) == [tag |-> tag, n |-> n, err |-> err]
NoRet == Ret("none", 0, "none")

EmptyBuf == [i \in {} |-> 0]
\* buf[i] of a buffer created by [0; 4] or vec![0; len] (1-based)
BufAt(b, i) == IF i \in DOMAIN b THEN b[i] ELSE 0

\* u32::from_be_bytes
from_be_bytes(b) == b[4] + 256 * b[3] + 65536 * b[2] + 16777216 * b[1]

\* line 38: u32::from_le_bytes(len) as usize
from_le_bytes(b) == b[1] + 256 * b[2] + 65536 * b[3] + 16777216 * b[4]

\* u32::to_le_bytes
to_le_bytes(n) ==
    <<n % 256, (n \div 256) % 256, (n \div 65536) % 256, (n \div 16777216) % 256>>

\* line 45: (buf.len() as u32).to_be_bytes(), for lengths below 2^31
to_be_bytes(n) ==
    <<(n \div 16777216) % 256, (n \div 65536) % 256, (n \div 256) % 256, n % 256>>

\* ------------------------------------------------------------ inputs
\* payload bytes are told apart by their position
PayloadOf(l) == [i \in 1..l |-> 16 + i]
\* the first bytes of the peer's next frame
NextFrame == <<1, 0>>
\* what the peer may send: a whole frame of every payload length followed by
\* the start of the next one, a frame of 2^24 payload bytes of which only the
\* first arrive, and a length prefix cut short
Streams ==
    {<<l, 0, 0, 0>> \o PayloadOf(l) \o NextFrame : l \in 0..MaxPayload}
    \cup {<<0, 0, 0, 1>> \o PayloadOf(MaxPayload), <<1, 0>>}
\* what serde_cbor::to_vec may return
Messages == {PayloadOf(l) : l \in 0..MaxPayload}

NoDecoded == [set |-> FALSE, n |-> 0, bytes |-> EmptyBuf]

FrameIdle ==
    /\ f_pc = "idle"
    /\ f_fn = "none"
    /\ stream = << >>
    /\ payload = << >>
    /\ taken = 0
    /\ wire = << >>
    /\ len = 0
    /\ decoded = NoDecoded
    /\ io_fn = "none"
    /\ io_n = 0
    /\ io_buf = EmptyBuf
    /\ io_src = << >>
    /\ io_count = 0
    /\ io_moved = 0
    /\ io_base = 0
    /\ io_last = NoOutcome
    /\ io_ret = NoRet

FrameInit ==
    /\ f_pc = "idle"
    /\ \/ f_fn = "command" /\ stream \in Streams /\ payload = << >>
       \/ f_fn = "result" /\ payload \in Messages /\ stream = << >>
    /\ taken = 0
    /\ wire = << >>
    /\ len = 0
    /\ decoded = NoDecoded
    /\ io_fn = "none"
    /\ io_n = 0
    /\ io_buf = EmptyBuf
    /\ io_src = << >>
    /\ io_count = 0
    /\ io_moved = 0
    /\ io_base = 0
    /\ io_last = NoOutcome
    /\ io_ret = NoRet

\* ------------------------------------------------------------ read_all, write_all
\* lines 176-178 and 185: `read` starts at 0; an empty buffer returns Ok(0)
\* without a transfer
call_read_all(n) ==
    /\ io_fn' = "read_all"
    /\ io_n' = n
    /\ io_buf' = EmptyBuf
    /\ io_src' = << >>
    /\ io_count' = 0
    /\ io_moved' = 0
    /\ io_base' = taken
    /\ io_last' = NoOutcome
    /\ io_ret' = IF 0 < n THEN NoRet ELSE Ret("Ok", 0, "none")

\* lines 191-193 and 200
call_write_all(b) ==
    /\ io_fn' = "write_all"
    /\ io_n' = Len(b)
    /\ io_buf' = EmptyBuf
    /\ io_src' = b
    /\ io_count' = 0
    /\ io_moved' = 0
    /\ io_base' = Len(wire)
    /\ io_last' = NoOutcome
    /\ io_ret' = IF 0 < Len(b) THEN NoRet ELSE Ret("Ok", 0, "none")

\* lines 178 and 185 (193 and 200): the loop test after an iteration
LoopExit(count) ==
    io_ret' = IF count < io_n THEN NoRet ELSE Ret("Ok", count, "none")

\* every rusb::Error a transfer may return
TransferErrors == HardErrors \cup {"Timeout"}

\* lines 172-175 and 178-184: one iteration of the loop of read_all.  read_bulk
\* stores the next bytes of the stream at the start of the slice it is given.
\* The device returns Ok(bytes) with at least `least` bytes, or one of `errs`.
read_all_iter(least, errs) ==
    /\ io_fn = "read_all" /\ io_ret = NoRet /\ f_pc \in {"len", "buf"}
    /\ LET from == ResumeAt(io_count)
           room == io_n - from
           avail == Len(stream) - taken
       IN  \/ \E bytes \in least..Min(room, avail) :
                 /\ io_buf' = [i \in DOMAIN io_buf \cup (from + 1)..(from + bytes) |->
                                 IF i \in (from + 1)..(from + bytes)
                                 THEN stream[taken + (i - from)] ELSE io_buf[i]]
                 /\ taken' = taken + bytes
                 /\ io_moved' = io_moved + bytes
                 /\ io_count' = Accumulate(io_count, bytes)
                 /\ io_last' = Outcome("ok", bytes, "none")
                 /\ LoopExit(io_count')
           \/ \E err \in errs :
                 /\ io_last' = Outcome("err", 0, err)
                 /\ io_ret' = IF IsTimeout(err) THEN NoRet
                              ELSE Ret("Err", ErrCount(io_count), err)
                 /\ UNCHANGED <<io_buf, taken, io_moved, io_count>>
    /\ UNCHANGED <<f_pc, f_fn, stream, wire, payload, len, decoded, io_fn, io_n, io_src,
                   io_base>>
    /\ UNCHANGED <<dvars, cvars>>

\* an iteration with any outcome of the transfer
read_all_step == read_all_iter(0, TransferErrors)

\* lines 187-190 and 193-199: one iteration of the loop of write_all.  write_bulk
\* sends the first bytes of the slice it is given.
write_all_iter(least, errs) ==
    /\ io_fn = "write_all" /\ io_ret = NoRet /\ f_pc \in {"wlen", "wbuf"}
    /\ LET from == ResumeAt(io_count)
           slice == SubSeq(io_src, from + 1, io_n)
       IN  \/ \E bytes \in least..Len(slice) :
                 /\ wire' = wire \o SubSeq(slice, 1, bytes)
                 /\ io_moved' = io_moved + bytes
                 /\ io_count' = Accumulate(io_count, bytes)
                 /\ io_last' = Outcome("ok", bytes, "none")
                 /\ LoopExit(io_count')
           \/ \E err \in errs :
                 /\ io_last' = Outcome("err", 0, err)
                 /\ io_ret' = IF IsTimeout(err) THEN NoRet
                              ELSE Ret("Err", ErrCount(io_count), err)
                 /\ UNCHANGED <<wire, io_moved, io_count>>
    /\ UNCHANGED <<f_pc, f_fn, stream, taken, payload, len, decoded, io_fn, io_n, io_buf,
                   io_src, io_base>>
    /\ UNCHANGED <<dvars, cvars>>

write_all_step == write_all_iter(0, TransferErrors)

\* iterations over a link that stalls but never fails: the transfer returns
\* Ok(bytes), possibly Ok(0), or Err(Timeout)
read_all_stalling == read_all_iter(0, {"Timeout"})
write_all_stalling == write_all_iter(0, {"Timeout"})
\* iterations in which the transfer returns a positive byte count
read_all_progress == read_all_iter(1, {})
write_all_progress == write_all_iter(1, {})

\* ------------------------------------------------------------ command(), byte by byte
\* lines 36-37: let mut len = [0; 4]; conn.read_all(&mut len)
command_call ==
    /\ f_pc = "idle" /\ f_fn = "command"
    /\ call_read_all(4)
    /\ f_pc' = "len"
    /\ UNCHANGED <<f_fn, stream, taken, wire, payload, len, decoded>>
    /\ UNCHANGED <<dvars, cvars>>

\* lines 37-40: unwrap() of the first read_all, from_le_bytes, vec![0; len],
\* conn.read_all(&mut buf)
command_len ==
    /\ f_pc = "len" /\ io_ret # NoRet
    /\ IF io_ret.tag = "Ok"
       THEN LET l == from_le_bytes([i \in 1..4 |-> BufAt(io_buf, i)])
            IN  /\ len' = l
                /\ call_read_all(l)
                /\ f_pc' = "buf"
       ELSE /\ f_pc' = "panicked"
            /\ UNCHANGED <<len, io_fn, io_n, io_buf, io_src, io_count, io_moved,
                           io_base, io_last, io_ret>>
    /\ UNCHANGED <<f_fn, stream, taken, wire, payload, decoded>>
    /\ UNCHANGED <<dvars, cvars>>

\* lines 40-41: unwrap() of the second read_all, then serde_cbor::from_slice(&buf)
\* and its unwrap(): the payload is a Command or it is not
command_decode ==
    /\ f_pc = "buf" /\ io_ret # NoRet
    /\ IF io_ret.tag = "Ok"
       THEN /\ decoded' = [set |-> TRUE, n |-> io_n, bytes |-> io_buf]
            /\ f_pc' \in {"done", "panicked"}
       ELSE /\ f_pc' = "panicked"
            /\ UNCHANGED decoded
    /\ UNCHANGED <<f_fn, stream, taken, wire, payload, len, io_fn, io_n, io_buf, io_src,
                   io_count, io_moved, io_base, io_last, io_ret>>
    /\ UNCHANGED <<dvars, cvars>>

\* ------------------------------------------------------------ result(), byte by byte
\* lines 44-45: conn.write_all(&(buf.len() as u32).to_be_bytes())
result_call ==
    /\ f_pc = "idle" /\ f_fn = "result"
    /\ call_write_all(to_be_bytes(Len(payload)))
    /\ f_pc' = "wlen"
    /\ UNCHANGED <<f_fn, stream, taken, wire, payload, len, decoded>>
    /\ UNCHANGED <<dvars, cvars>>

\* lines 45-46: unwrap() of the first write_all, conn.write_all(&buf)
result_payload ==
    /\ f_pc = "wlen" /\ io_ret # NoRet
    /\ IF io_ret.tag = "Ok"
       THEN /\ call_write_all(payload)
            /\ f_pc' = "wbuf"
       ELSE /\ f_pc' = "panicked"
            /\ UNCHANGED <<io_fn, io_n, io_buf, io_src, io_count, io_moved, io_base,
                           io_last, io_ret>>
    /\ UNCHANGED <<f_fn, stream, taken, wire, payload, len, decoded>>
    /\ UNCHANGED <<dvars, cvars>>

\* lines 46-47: unwrap() of the second write_all
result_return ==
    /\ f_pc = "wbuf" /\ io_ret # NoRet
    /\ f_pc' = IF io_ret.tag = "Ok" THEN "done" ELSE "panicked"
    /\ UNCHANGED <<f_fn, stream, taken, wire, payload, len, decoded, io_fn, io_n, io_buf,
                   io_src, io_count, io_moved, io_base, io_last, io_ret>>
    /\ UNCHANGED <<dvars, cvars>>

\* ------------------------------------------------------------ try_connect()
\* lines 119-120
SWITCH_VENDOR_ID == 1406
SWITCH_PRODUCT_ID == 12288

Device(vid, pid, iface, eps) ==
    [vid |-> vid, pid |-> pid, iface |-> iface, number |-> 0, eps |-> eps]

\* an endpoint descriptor; its address is told by its position and direction
Endpoint(kind, i) ==
    [type |-> kind[1], dir |-> kind[2], addr |-> IF kind[2] = "In" THEN 128 + i ELSE i]
EndpointKinds == {"Bulk", "Interrupt"} \X {"In", "Out"}
EndpointLists ==
    {[i \in DOMAIN ks |-> Endpoint(ks[i], i)] :
        ks \in UNION {[1..n -> EndpointKinds] : n \in 0..MaxEndpoints}}

\* devices that are no Switch: another vendor, the vendor's other product,
\* the product id under another vendor
OtherDevices ==
    {Device(7531, 2, "eps", << >>), Device(SWITCH_VENDOR_ID, 8201, "eps", << >>),
     Device(7531, SWITCH_PRODUCT_ID, "eps", << >>)}
\* a Switch: no interface, an interface without descriptor, or endpoints
Switches ==
    {Device(SWITCH_VENDOR_ID, SWITCH_PRODUCT_ID, "none", << >>),
     Device(SWITCH_VENDOR_ID, SWITCH_PRODUCT_ID, "nodesc", << >>)}
    \cup {Device(SWITCH_VENDOR_ID, SWITCH_PRODUCT_ID, "eps", eps) : eps \in EndpointLists}
\* what may follow the first Switch: a second Switch or another device
Trailing ==
    {Device(SWITCH_VENDOR_ID, SWITCH_PRODUCT_ID, "eps",
            <<Endpoint(<<"Bulk", "Out">>, 1), Endpoint(<<"Bulk", "In">>, 2)>>),
     Device(7531, 2, "eps", << >>)}
Optional(S) == {<< >>} \cup {<<x>> : x \in S}
Enumerations ==
    {others \o first \o last :
        others \in UNION {[1..n -> OtherDevices] : n \in 0..MaxOthers},
        first \in Optional(Switches), last \in Optional(Trailing)}

NoConn == [device |-> 0, endpoint_in |-> {}, endpoint_out |-> {}]

ConnectIdle ==
    /\ devices = << >>
    /\ t_pc = "idle"
    /\ dev_i = 0
    /\ ep_i = 0
    /\ endpoint_in = {}
    /\ endpoint_out = {}
    /\ t_ret = "none"
    /\ t_conn = NoConn
    /\ opened = << >>
    /\ configured = << >>
    /\ claimed = << >>

ConnectInit ==
    /\ devices \in Enumerations
    /\ t_pc = "start"
    /\ dev_i = 0
    /\ ep_i = 0
    /\ endpoint_in = {}
    /\ endpoint_out = {}
    /\ t_ret = "none"
    /\ t_conn = NoConn
    /\ opened = << >>
    /\ configured = << >>
    /\ claimed = << >>

\* lines 124-125
Matches(d) == d.vid = SWITCH_VENDOR_ID /\ d.pid = SWITCH_PRODUCT_ID

\* a test that takes every transfer type
IsBulk_Any(e) == TRUE

\* line 134
IsBulk(e) == e.type = "Bulk"

\* lines 137-139 and 142-144: only a None is assigned
Record(old, addr) == IF old = {} THEN {addr} ELSE old

\* an error chosen by the OUT endpoint
MissingError_ByOut(in, out) == IF out = {} THEN "NoOutEndpoint" ELSE "NoInEndpoint"

\* lines 157-161
MissingError(in, out) == IF in = {} THEN "NoInEndpoint" ELSE "NoOutEndpoint"

\* line 122: rusb::devices()?
tc_devices ==
    /\ t_pc = "start" /\ t_ret = "none"
    /\ \/ t_pc' = "device" /\ dev_i' = 1 /\ UNCHANGED t_ret
       \/ t_ret' = "RusbError" /\ UNCHANGED <<t_pc, dev_i>>
    /\ UNCHANGED <<devices, ep_i, endpoint_in, endpoint_out, t_conn, opened, configured,
                   claimed>>
    /\ UNCHANGED <<dvars, fvars>>

\* lines 122-126 and 169-170: one iteration of the loop over the devices up to
\* the identity test, or the end of the loop
tc_device ==
    /\ t_pc = "device" /\ t_ret = "none"
    /\ IF dev_i > Len(devices)
       THEN t_ret' = "SwitchNotFound" /\ UNCHANGED <<t_pc, dev_i>>
       ELSE \/ t_ret' = "RusbError" /\ UNCHANGED <<t_pc, dev_i>>
            \/ /\ Matches(devices[dev_i])
               /\ t_pc' = "open"
               /\ UNCHANGED <<t_ret, dev_i>>
            \/ /\ ~Matches(devices[dev_i])
               /\ dev_i' = dev_i + 1
               /\ UNCHANGED <<t_ret, t_pc>>
    /\ UNCHANGED <<devices, ep_i, endpoint_in, endpoint_out, t_conn, opened, configured,
                   claimed>>
    /\ UNCHANGED <<dvars, fvars>>

\* lines 127-132 and 162-167: open()?, set_active_configuration(1)?,
\* active_config_descriptor()?, the first interface and its first descriptor
tc_open ==
    /\ t_pc = "open" /\ t_ret = "none"
    /\ \E failed \in {"open", "set_active_configuration", "active_config_descriptor",
                      "nothing"} :
          /\ opened' = IF failed = "open" THEN opened ELSE Append(opened, dev_i)
          /\ configured' = IF failed \in {"open", "set_active_configuration"}
                           THEN configured ELSE Append(configured, dev_i)
          /\ IF failed # "nothing"
             THEN t_ret' = "RusbError" /\ UNCHANGED t_pc
             ELSE IF devices[dev_i].iface = "none"
             THEN t_ret' = "NoInterface" /\ UNCHANGED t_pc
             ELSE IF devices[dev_i].iface = "nodesc"
             THEN t_ret' = "NoInterfaceDescriptor" /\ UNCHANGED t_pc
             ELSE t_pc' = "endpoints" /\ UNCHANGED t_ret
    /\ ep_i' = 0
    /\ endpoint_in' = {}
    /\ endpoint_out' = {}
    /\ UNCHANGED <<devices, dev_i, t_conn, claimed>>
    /\ UNCHANGED <<dvars, fvars>>

\* lines 133-156: one iteration of the loop over the endpoint descriptors
tc_endpoint ==
    /\ t_pc = "endpoints" /\ t_ret = "none"
    /\ ep_i < Len(devices[dev_i].eps)
    /\ LET e == devices[dev_i].eps[ep_i + 1]
           in == IF IsBulk(e) /\ e.dir = "In" THEN Record(endpoint_in, e.addr)
                 ELSE endpoint_in
           out == IF IsBulk(e) /\ e.dir = "Out" THEN Record(endpoint_out, e.addr)
                  ELSE endpoint_out
       IN  /\ ep_i' = ep_i + 1
           /\ endpoint_in' = in
           /\ endpoint_out' = out
           /\ IF in # {} /\ out # {}
              THEN \/ /\ claimed' = Append(claimed, <<dev_i, devices[dev_i].number>>)
                      /\ t_conn' = [device |-> dev_i, endpoint_in |-> in,
                                    endpoint_out |-> out]
                      /\ t_ret' = "Ok"
                   \/ /\ t_ret' = "RusbError"
                      /\ UNCHANGED <<claimed, t_conn>>
              ELSE UNCHANGED <<claimed, t_conn, t_ret>>
    /\ UNCHANGED <<devices, t_pc, dev_i, opened, configured>>
    /\ UNCHANGED <<dvars, fvars>>

\* lines 157-161: the endpoint descriptors are exhausted
tc_endpoints_end ==
    /\ t_pc = "endpoints" /\ t_ret = "none"
    /\ ep_i = Len(devices[dev_i].eps)
    /\ t_ret' = MissingError(endpoint_in, endpoint_out)
    /\ UNCHANGED <<devices, t_pc, dev_i, ep_i, endpoint_in, endpoint_out, t_conn, opened,
                   configured, claimed>>
    /\ UNCHANGED <<dvars, fvars>>

\* ------------------------------------------------------------ specifications
Init == DispatcherInit /\ FrameIdle /\ ConnectIdle

Next ==
    \/ try_connect_Ok
    \/ try_connect_Err
    \/ sleep
    \/ command_Ok
    \/ command_IoError
    \/ command_Malformed
    \/ Launch
    \/ Drop
    \/ AbsentHandle
    \/ RequestNextMove
    \/ PollNextMove
    \/ BlockNextMove
    \/ AddNextPiece
    \/ DefaultOptions
    \/ DefaultEvaluator
    \/ LaunchDropRun

Spec == Init /\ [][Next]_vars

FrameNext ==
    \/ command_call
    \/ command_len
    \/ command_decode
    \/ read_all_step
    \/ result_call
    \/ result_payload
    \/ result_return
    \/ write_all_step

InitFrame == DispatcherInit /\ FrameInit /\ ConnectIdle

SpecFrame == InitFrame /\ [][FrameNext]_vars

\* command() and result() over a link that never returns a non-timeout error
\* and, while a transfer can move bytes, eventually moves some
FrameLiveNext ==
    \/ command_call
    \/ command_len
    \/ command_decode
    \/ read_all_stalling
    \/ result_call
    \/ result_payload
    \/ result_return
    \/ write_all_stalling

SpecFrameLive ==
    /\ InitFrame
    /\ [][FrameLiveNext]_vars
    /\ WF_vars(read_all_progress)
    /\ WF_vars(write_all_progress)

ConnectNext ==
    \/ tc_devices
    \/ tc_device
    \/ tc_open
    \/ tc_endpoint
    \/ tc_endpoints_end

InitConnect == DispatcherInit /\ FrameIdle /\ ConnectInit

SpecConnect == InitConnect /\ [][ConnectNext]_vars

\* ------------------------------------------------------------ properties of Spec
\* C1: after a non-timeout error of a bulk read or write during a session the
\* dispatcher is Disconnected and the process keeps running towards the next
\* try_connect.
C1_IoErrorEndsOnlyTheSession ==
    fault \in {"io_read", "io_write"} => Disconnected

\* C2: after a request payload that decodes to no Command the dispatcher is
\* Disconnected and the process keeps running; no response was written for
\* that frame.
C2_MalformedEndsOnlyTheSession ==
    fault = "malformed" => (Disconnected /\ frames = 0)

\* C3: a session that has executed no Launch has handle counter 0 and an empty
\* handle table; its first Launch answers handle 1 and its second handle 2.
C3_SessionStartsFresh ==
    /\ (Connected /\ launches = CountZero) =>
          (handle_counter = U32Zero /\ handles = EmptyMap)
    /\ (pc = "command" /\ cmd.op = "Launch" /\ launches = Count(0, 0, 1)) =>
          resp = Resp("handle", U32One)
    /\ (pc = "command" /\ cmd.op = "Launch" /\ launches = Count(0, 0, 2)) =>
          resp = Resp("handle", U32Two)

C3_SecondLaunchAnswered ==
    /\ pc = "command" /\ cmd.op = "Launch"
    /\ launches = Count(0, 0, 2)
    /\ resp = Resp("handle", U32Two)
    /\ DOMAIN handles = {U32One, U32Two}

\* no handle value has been carried by two Launch responses of the session
AnswersDistinct == laps <= 1 /\ \A h \in Tracked : answered[h] <= 1

\* C4 as stated: however many Launch commands a session has executed, their
\* responses carry pairwise distinct handles.
C4_DistinctForEveryN == Connected => AnswersDistinct

\* C4 as amended: the responses of the first 2^32 Launch commands of a session
\* carry pairwise distinct handles.
C4_DistinctUpTo2Pow32 ==
    (Connected /\ CountLeq(launches, TwoPow32)) => AnswersDistinct

C4_EveryHandleAnsweredOnce ==
    /\ pc = "command"
    /\ launches = TwoPow32
    /\ laps = 1
    /\ \A h \in Tracked : answered[h] = 1

\* C5: every handle answered by a Launch and not dropped since is a key of the
\* handle table and maps to the engine that Launch created.
C5_AnsweredHandleKeepsItsEngine ==
    Connected =>
        \A p \in live : HashMapContains(handles, p[1]) /\ handles[p[1]] = p[2]

\* C6: executing Drop{handle: h} leaves the table without h and with every
\* other entry as it was (so unchanged when h was absent), leaves the handle
\* counter unchanged, writes no response and returns to reading requests.
C6_DropRemovesOnlyItsHandle ==
    [][(pc = "exec" /\ cmd.op = "Drop") =>
          /\ ~HashMapContains(handles', cmd.handle)
          /\ DOMAIN handles' = DOMAIN handles \ {cmd.handle}
          /\ \A k \in DOMAIN handles' : handles'[k] = handles[k]
          /\ (~HashMapContains(handles, cmd.handle) => handles' = handles)
          /\ handle_counter' = handle_counter
          /\ frames' = 0 /\ resp' = resp
          /\ pc' = "command"]_vars

C6_DroppedOneOfTwo ==
    /\ pc = "command" /\ cmd = Cmd("Drop", U32One, 0)
    /\ launches = Count(0, 0, 2)
    /\ DOMAIN handles = {U32Two}
    /\ frames = 0

\* C7: when the dispatcher is about to read a request, the command it has just
\* executed wrote exactly one response if it is Launch, PollNextMove,
\* BlockNextMove, DefaultOptions or DefaultEvaluator and none if it is Drop,
\* RequestNextMove or AddNextPiece; nothing is written between reading a
\* request and executing it, nor before the first request.
C7_RequestsAndResponsesAlternate ==
    /\ frames \in {0, 1}
    /\ (pc = "command" /\ cmd.op \in {"Launch", "PollNextMove", "BlockNextMove",
                                      "DefaultOptions", "DefaultEvaluator"}) => frames = 1
    /\ (pc = "command" /\ cmd.op \in {"Drop", "RequestNextMove", "AddNextPiece"}) =>
          frames = 0
    /\ pc = "exec" => frames = 0
    /\ cmd = NoCmd => (frames = 0 /\ resp = NoResp)

C7_DefaultOptionsAnswered ==
    /\ pc = "command" /\ cmd.op = "DefaultOptions"
    /\ frames = 1 /\ resp.kind = "options"

\* ------------------------------------------------------------ properties of SpecFrame
\* C8: during read_all and write_all the count kept by the loop equals the
\* bytes the device has moved and never exceeds the buffer; the bytes moved so
\* far are the first bytes of the buffer in order; Ok is returned only with
\* the full length moved, and carries it.
C8_RetryUntilComplete ==
    io_fn # "none" =>
        /\ io_count = io_moved
        /\ io_count <= io_n
        /\ io_fn = "read_all" =>
              /\ taken = io_base + io_count
              /\ io_buf = [i \in 1..io_count |-> stream[io_base + i]]
        /\ io_fn = "write_all" =>
              wire = SubSeq(wire, 1, io_base) \o SubSeq(io_src, 1, io_count)
        /\ io_ret.tag = "Ok" => (io_ret.n = io_n /\ io_moved = io_n)

C8_CompletedByPartialTransfer ==
    /\ io_fn = "read_all" /\ io_ret.tag = "Ok"
    /\ io_n = 4
    /\ io_last = Outcome("ok", 1, "none")

\* C9: as soon as a transfer fails with an error other than Timeout, the call
\* has returned Err with that error and the bytes moved before it; an Err is
\* never returned otherwise, and the failed transfer is the call's last.
C9_FirstHardErrorAborts ==
    /\ (io_last.kind = "err" /\ io_last.err \in HardErrors) =>
          io_ret = Ret("Err", io_moved, io_last.err)
    /\ io_ret.tag = "Err" => (io_last.kind = "err" /\ io_last.err \in HardErrors)

C9_ErrorAfterTwoBytes ==
    /\ io_fn = "write_all"
    /\ io_ret = Ret("Err", 2, "NoDevice")
    /\ io_n = 4

\* the little-endian value of the first four bytes the peer sent
PrefixValue ==
    stream[1] + 256 * stream[2] + 65536 * stream[3] + 16777216 * stream[4]

\* C10: command() takes at most the 4 prefix bytes until the prefix is
\* complete, then reads a payload of exactly PrefixValue bytes starting at the
\* fifth byte, and hands the payload to the decoder only when 4 + PrefixValue
\* bytes have been taken, never more.
C10_RequestTakesPrefixPlusLength ==
    f_fn = "command" =>
        /\ f_pc = "len" => (taken <= 4 /\ ~decoded.set)
        /\ f_pc = "buf" =>
              /\ len = PrefixValue
              /\ io_base = 4 /\ io_n = PrefixValue
              /\ taken <= 4 + PrefixValue
        /\ decoded.set =>
              /\ taken = 4 + PrefixValue
              /\ decoded.n = PrefixValue
              /\ decoded.bytes = [i \in 1..PrefixValue |-> stream[4 + i]]
        /\ f_pc = "done" => decoded.set

C10_LongestPayloadDecoded ==
    /\ f_fn = "command" /\ f_pc = "done"
    /\ len = MaxPayload
    /\ taken = 4 + MaxPayload
    /\ taken < Len(stream)

\* the big-endian value of the first four bytes written
WrittenPrefixValue ==
    wire[4] + 256 * wire[3] + 65536 * wire[2] + 16777216 * wire[1]

\* C11: result() writes nothing but prefix bytes until the 4-byte prefix is
\* complete, then payload bytes in order; the prefix read as a big-endian u32
\* is the payload length, and the finished frame decoded that way (4 prefix
\* bytes, then that many bytes) is the payload.
C11_ResponseFrameIsBigEndianLengthThenPayload ==
    f_fn = "result" =>
        /\ f_pc = "wlen" => (io_n = 4 /\ wire = SubSeq(io_src, 1, Len(wire)))
        /\ f_pc \in {"wbuf", "done"} =>
              /\ Len(wire) >= 4
              /\ WrittenPrefixValue = Len(payload)
              /\ SubSeq(wire, 5, Len(wire)) = SubSeq(payload, 1, Len(wire) - 4)
        /\ f_pc = "done" =>
              /\ Len(wire) = 4 + WrittenPrefixValue
              /\ SubSeq(wire, 5, 4 + WrittenPrefixValue) = payload

C11_LongestResponseWritten ==
    /\ f_fn = "result" /\ f_pc = "done"
    /\ Len(payload) = MaxPayload
    /\ wire = <<0, 0, 0, MaxPayload>> \o payload

\* ------------------------------------------------------------ properties of SpecConnect
\* the enumerated devices with vendor id 0x057E and product id 0x3000
MatchingDevices ==
    {i \in 1..Len(devices) : devices[i].vid = 5 * 256 + 126 /\ devices[i].pid = 48 * 256}
Lowest(S) == CHOOSE i \in S : \A j \in S : i <= j
\* positions of the bulk endpoints of one direction in a device's first
\* interface descriptor
BulkAt(d, dir) ==
    {i \in 1..Len(d.eps) : d.eps[i].type = "Bulk" /\ d.eps[i].dir = dir}

\* C12: when the enumeration was obtained and holds no device with the Switch
\* identity, try_connect returns SwitchNotFound and has opened, configured and
\* claimed nothing.
C12_NoSwitchIsSwitchNotFound ==
    (t_pc \in {"device", "open", "endpoints"} /\ t_ret # "none" /\ MatchingDevices = {}) =>
        /\ t_ret = "SwitchNotFound"
        /\ opened = << >> /\ configured = << >> /\ claimed = << >>

\* C13: an Ok result is a connection to the first matching device, with the
\* addresses of the first bulk IN and first bulk OUT endpoint of its first
\* interface descriptor; that device alone was opened, its interface was
\* claimed once, the scan ended at the endpoint that completed the pair, and
\* nothing is claimed unless the result is Ok.
C13_ConnectsFirstSwitchFirstBulkPair ==
    /\ claimed # << >> => t_ret = "Ok"
    /\ t_ret = "Ok" =>
          /\ MatchingDevices # {}
          /\ LET d == Lowest(MatchingDevices)
                 ins == BulkAt(devices[d], "In")
                 outs == BulkAt(devices[d], "Out")
             IN  /\ ins # {} /\ outs # {}
                 /\ t_conn = [device |-> d,
                              endpoint_in |-> {devices[d].eps[Lowest(ins)].addr},
                              endpoint_out |-> {devices[d].eps[Lowest(outs)].addr}]
                 /\ opened = <<d>>
                 /\ claimed = <<<<d, devices[d].number>>>>
                 /\ ep_i = IF Lowest(ins) < Lowest(outs) THEN Lowest(outs) ELSE Lowest(ins)

C13_SecondDeviceConnectedBeforeLastEndpoint ==
    /\ t_ret = "Ok"
    /\ t_conn.device = 2 /\ Len(devices) = 3
    /\ ep_i = 2 /\ Len(devices[2].eps) = 3

\* C14 as stated: after the endpoint scan of the first matching device the
\* result is NoInEndpoint exactly when it has no bulk IN endpoint and
\* NoOutEndpoint exactly when it has no bulk OUT endpoint; with either error
\* nothing is claimed and the scan stayed on that device.
C14_MissingDirectionNamedExactly ==
    /\ t_ret \in {"NoInEndpoint", "NoOutEndpoint"} => t_pc = "endpoints"
    /\ (t_pc = "endpoints" /\ t_ret # "none") =>
          /\ dev_i = Lowest(MatchingDevices)
          /\ t_ret = "NoInEndpoint" <=> BulkAt(devices[dev_i], "In") = {}
          /\ t_ret = "NoOutEndpoint" <=> BulkAt(devices[dev_i], "Out") = {}
          /\ t_ret \in {"NoInEndpoint", "NoOutEndpoint"} =>
                (claimed = << >> /\ ep_i = Len(devices[dev_i].eps))

\* C14 as amended: NoInEndpoint exactly when it has no bulk IN endpoint, and
\* NoOutEndpoint exactly when it has a bulk IN endpoint and no bulk OUT
\* endpoint.
C14_MissingDirectionInFirst ==
    /\ t_ret \in {"NoInEndpoint", "NoOutEndpoint"} => t_pc = "endpoints"
    /\ (t_pc = "endpoints" /\ t_ret # "none") =>
          /\ dev_i = Lowest(MatchingDevices)
          /\ t_ret = "NoInEndpoint" <=> BulkAt(devices[dev_i], "In") = {}
          /\ t_ret = "NoOutEndpoint" <=>
                (BulkAt(devices[dev_i], "In") # {} /\ BulkAt(devices[dev_i], "Out") = {})
          /\ t_ret \in {"NoInEndpoint", "NoOutEndpoint"} =>
                (claimed = << >> /\ ep_i = Len(devices[dev_i].eps))

C14_BothDirectionsMissing ==
    /\ t_ret = "NoInEndpoint"
    /\ Len(devices[dev_i].eps) >= 2
    /\ BulkAt(devices[dev_i], "Out") = {}
    /\ dev_i < Len(devices)

\* ------------------------------------------------------------ more properties of Spec

\* C15: executing RequestNextMove, PollNextMove, BlockNextMove or AddNextPiece
\* with a handle that is not a key of the handle table aborts the command: no
\* engine call is made, no response frame is written, the table and the counter
\* are untouched, and the dispatcher never reads another request afterwards.
C15_AbsentHandleFailsHard ==
    [][/\ (pc = "exec" /\ cmd.op \in HandleOps /\ ~HashMapContains(handles, cmd.handle)) =>
             /\ pc' = "panicked" /\ fault' = "absent_handle"
             /\ engine_call' = NoCall
             /\ frames' = 0 /\ resp' = resp
             /\ handles' = handles /\ handle_counter' = handle_counter
       /\ fault = "absent_handle" => (pc' = "panicked" /\ fault' = fault)]_vars

C15_PollAfterDrop ==
    /\ pc = "panicked" /\ fault = "absent_handle"
    /\ cmd = Cmd("PollNextMove", U32One, 0)
    /\ launches = Count(0, 0, 1)
    /\ removed = Count(0, 0, 1)
    /\ engine_call = NoCall /\ frames = 0

\* C16: each step out of the connect position is one try_connect, Ok or Err; an
\* Err is followed by the wait and only the wait leads back to the next
\* attempt; and no step ever leaves the outer loop.
C16_OuterLoopNeverTerminates ==
    [][/\ pc = "connect" => pc' \in {"command", "sleep"}
       /\ (pc = "connect" /\ pc' = "sleep") => conn_err' \in ConnErrors
       /\ pc = "sleep" => pc' = "connect"
       /\ pc' = "connect" => pc = "sleep"
       /\ pc' \in {"connect", "sleep", "command", "exec"}]_vars

\* C17: during a session the handle counter is the number of Launch commands
\* executed modulo 2^32; it changes only when a Launch executes, by one
\* wrapping increment; and the Launch just executed has answered, and stored
\* its engine under, the incremented value.
C17_CounterIsLaunchCountMod2Pow32 ==
    /\ [](/\ Connected => handle_counter = CountModU32(launches)
          /\ (pc = "command" /\ cmd.op = "Launch") =>
                /\ resp = Resp("handle", CountModU32(launches))
                /\ HashMapContains(handles, CountModU32(launches))
                /\ handles[CountModU32(launches)] = launches)
    /\ [][(Connected /\ handle_counter' # handle_counter) =>
             \/ /\ pc = "exec" /\ cmd.op = "Launch"
                /\ handle_counter' = wrapping_add1(handle_counter)
                /\ launches' = CountSucc(launches)
             \/ /\ handle_counter = RunStart /\ handle_counter' = RunEnd
                /\ launches' = CountAdd(launches, RunLength)]_vars

C17_LaunchAfterWrapAnswersOne ==
    /\ pc = "command" /\ cmd.op = "Launch"
    /\ launches = CountSucc(TwoPow32)
    /\ handle_counter = U32One
    /\ resp = Resp("handle", U32One)

\* C19: executing RequestNextMove, PollNextMove, BlockNextMove, AddNextPiece,
\* DefaultOptions or DefaultEvaluator leaves the handle table and the handle
\* counter as they were; DefaultOptions and DefaultEvaluator make no engine call
\* and, whatever the table holds, never fail on a lookup: they write their one
\* response frame, the only other outcome being a failed transfer of it.
C19_OtherCommandsKeepTableAndCounter ==
    [][/\ (pc = "exec" /\ cmd.op \in HandleOps \cup DefaultOps) =>
             /\ DOMAIN handles' = DOMAIN handles
             /\ handles' = handles
             /\ handle_counter' = handle_counter
       /\ (pc = "exec" /\ cmd.op \in DefaultOps) =>
             /\ engine_call' = NoCall
             /\ \/ /\ pc' = "command" /\ frames' = 1
                   /\ resp' = Resp(IF cmd.op = "DefaultOptions"
                                   THEN "options" ELSE "evaluator", U32Zero)
                \/ pc' = "panicked" /\ fault' = "io_write"]_vars

C19_DefaultEvaluatorOnEmptyTable ==
    /\ pc = "command" /\ cmd.op = "DefaultEvaluator"
    /\ handles = EmptyMap /\ launches = CountZero
    /\ frames = 1 /\ resp = Resp("evaluator", U32Zero)
    /\ engine_call = NoCall

\* C20: while fewer than 2^32 Launch commands have executed in the session,
\* every key of the handle table is at least 1 and at most the handle counter,
\* and no Launch has answered handle 0; and the table never holds more entries
\* than Launch commands executed minus Drop commands that removed a present
\* handle.
C20_KeysWithinCounterAndCount ==
    /\ (Connected /\ CountLess(launches, TwoPow32)) =>
          /\ \A k \in DOMAIN handles :
                /\ k # U32Zero
                /\ k = handle_counter \/ U32Less(k, handle_counter)
          /\ answered[U32Zero] = 0
          /\ resp.kind = "handle" => resp.value # U32Zero
    /\ CountLeq(CountAdd(removed, Count(0, 0, Cardinality(DOMAIN handles))), launches)

C20_TwoLaunchedOneRemoved ==
    /\ pc = "command"
    /\ launches = Count(0, 0, 2)
    /\ removed = Count(0, 0, 1)
    /\ DOMAIN handles = {U32Two}
    /\ handle_counter = U32Two

\* ------------------------------------------------------------ properties of SpecFrameLive
\* a call of read_all or write_all whose loop is running
Looping == io_fn # "none" /\ io_ret = NoRet
\* the peer has sent, or will accept, every byte the call asks for
Suppliable == io_fn = "write_all" \/ io_n <= Len(stream) - io_base

\* C18: over a link that returns no non-timeout error and eventually moves
\* bytes while it can, a call of read_all or write_all whose bytes the peer
\* supplies returns Ok of the buffer length; an iteration whose transfer is a
\* timeout or moves no byte leaves the count as it was and returns nothing, so
\* a call whose peer has run out of bytes never returns; no iteration lowers
\* the count, and the count never exceeds the buffer length.
C18_FairTransferTerminatesStalledRetries ==
    /\ [](io_fn # "none" => (0 <= io_count /\ io_count <= io_n))
    /\ [][(Looping /\ f_pc' = f_pc) =>
             /\ io_count' >= io_count
             /\ (io_last'.kind = "err" \/ io_last'.bytes = 0) =>
                   (io_ret' = NoRet /\ io_count' = io_count)
             /\ io_ret'.tag # "Err"
             /\ ~Suppliable => io_ret' = NoRet]_vars
    /\ (Looping /\ Suppliable) ~> (io_ret = Ret("Ok", io_n, "none"))

C18_ReadCompletedByLastByte ==
    /\ io_fn = "read_all" /\ f_pc = "buf"
    /\ io_n = MaxPayload
    /\ io_ret = Ret("Ok", MaxPayload, "none")
    /\ io_last = Outcome("ok", 1, "none")

====
